---------------------------- MODULE Spec2Model ----------------------------
(***************************************************************************)
(* A model of libls/ls.c (GNU Inetutils): ls_main, traverse, display and   *)
(* mastercmp, with the file-tree walk (fts) and the field comparators of   *)
(* cmp.c as the environment they run against.                              *)
(***************************************************************************)
EXTENDS Integers, Sequences, FiniteSets, TLC

VARIABLES
  pc,          \* where ls_main stands: "idle", "getopt", "traverse", "read", "done"
  f,           \* the f_* flag globals (ls.c:89-111)
  sortkey,     \* ls.c:84
  blocksize,   \* ls.c:82
  rval,        \* ls.c:113
  output,      \* ls.c:86
  sortfcn,     \* ls.c:76
  printfcn,    \* ls.c:75
  env,         \* what isatty() and getuid() answer for this call
  optv,        \* the option letters of argv, in order
  argv,        \* the root arguments of argv
  optind,      \* getopt's index into optv
  fts_options, \* ls_main's local option set
  ftsp,        \* the walk: current entry, pending instruction, sibling frames
  ret,         \* the value the last ls_main call returned
  out,         \* what this call wrote to standard output
  err,         \* what this call wrote to standard error
  events,      \* the entries fts_read returned in this call and how traverse took each
  np_live,     \* entries holding an annotation that was malloc'ed and not freed
  calls,       \* the calls of display in this call of ls_main, and what each did
  cmp_a, cmp_b, cmp_ret   \* one application of mastercmp and the return it took

vars == <<pc, f, sortkey, blocksize, rval, output, sortfcn, printfcn, env,
          optv, argv, optind, fts_options, ftsp, ret, out, err, events,
          np_live, calls, cmp_a, cmp_b, cmp_ret>>

lsvars == <<pc, sortkey, blocksize, rval, output, printfcn, env,
            optv, argv, optind, fts_options, ftsp, ret, out, err, events,
            np_live, calls>>

-----------------------------------------------------------------------------
(* Program constants *)

BY_NAME == 0
BY_SIZE == 1
BY_TIME == 2
FTS_ROOTLEVEL == 0
EXIT_FAILURE == 1

(* Bounds *)
MaxFlags == 2      \* option letters in one call
MaxMallocFail == 1 \* allocations that fail in one call
MaxStat == 1       \* st_size and the timestamps of a compared entry range over 0..MaxStat

-----------------------------------------------------------------------------
(* Small helpers *)

Sign(n) == IF n > 0 THEN 1 ELSE IF n < 0 THEN -1 ELSE 0

SetMin(S) == CHOOSE x \in S : \A y \in S : x <= y

Dot == 46

\* strcmp over names kept as tuples of character codes
strcmp(s, t) ==
  LET n == IF Len(s) < Len(t) THEN Len(s) ELSE Len(t)
      diff == {i \in 1..n : s[i] # t[i]}
  IN IF diff = {} THEN Len(s) - Len(t)
     ELSE s[SetMin(diff)] - t[SetMin(diff)]

-----------------------------------------------------------------------------
(* The Comparator Set (cmp.c): by name, size or one of three timestamps,   *)
(* ascending, ties broken by name; each with a mirrored reversed variant.  *)

namecmp(a, b) == strcmp(a.fts_name, b.fts_name)

revnamecmp(a, b) == strcmp(b.fts_name, a.fts_name)

FieldCmp(x, y, a, b) == IF x # y THEN x - y ELSE namecmp(a, b)

sizecmp(a, b) == FieldCmp(a.fts_statp.st_size, b.fts_statp.st_size, a, b)

revsizecmp(a, b) == sizecmp(b, a)

modcmp(a, b) == FieldCmp(a.fts_statp.st_mtime, b.fts_statp.st_mtime, a, b)

revmodcmp(a, b) == modcmp(b, a)

acccmp(a, b) == FieldCmp(a.fts_statp.st_atime, b.fts_statp.st_atime, a, b)

revacccmp(a, b) == acccmp(b, a)

statcmp(a, b) == FieldCmp(a.fts_statp.st_ctime, b.fts_statp.st_ctime, a, b)

revstatcmp(a, b) == statcmp(b, a)

SortFcns == {"namecmp", "revnamecmp", "sizecmp", "revsizecmp", "modcmp",
             "revmodcmp", "acccmp", "revacccmp", "statcmp", "revstatcmp"}

\* the call through the sortfcn pointer (ls.c:642)
CallSortfcn(fn, a, b) ==
  CASE fn = "namecmp" -> namecmp(a, b)
    [] fn = "revnamecmp" -> revnamecmp(a, b)
    [] fn = "sizecmp" -> sizecmp(a, b)
    [] fn = "revsizecmp" -> revsizecmp(a, b)
    [] fn = "modcmp" -> modcmp(a, b)
    [] fn = "revmodcmp" -> revmodcmp(a, b)
    [] fn = "acccmp" -> acccmp(a, b)
    [] fn = "revacccmp" -> revacccmp(a, b)
    [] fn = "statcmp" -> statcmp(a, b)
    [] fn = "revstatcmp" -> revstatcmp(a, b)

-----------------------------------------------------------------------------
(* mastercmp (ls.c:613-643) *)

\* A slip that lets the reversed toggle reach the root-level grouping.
Mut_mastercmp_ret_rev(a, b) ==
  IF a.fts_info = "ERR" THEN "err_a"
  ELSE IF b.fts_info = "ERR" THEN "err_b"
  ELSE IF a.fts_info = "NS" \/ b.fts_info = "NS"
       THEN IF b.fts_info # "NS" THEN "ns_gt"
            ELSE IF a.fts_info # "NS" THEN "ns_lt"
            ELSE "ns_name"
  ELSE IF a.fts_info # b.fts_info /\ a.fts_level = FTS_ROOTLEVEL /\ f.f_listdir = 0
       THEN IF a.fts_info = "D" THEN (IF f.f_reversesort = 1 THEN "dir_lt" ELSE "dir_gt")
            ELSE IF b.fts_info = "D" THEN (IF f.f_reversesort = 1 THEN "dir_gt" ELSE "dir_lt")
            ELSE "sortfcn"
  ELSE "sortfcn"

\* A slip that orders the not-stat-able entries by the arguments' positions
\* alone.
Mut_mastercmp_ret_ns(a, b) ==
  IF a.fts_info = "ERR" THEN "err_a"
  ELSE IF b.fts_info = "ERR" THEN "err_b"
  ELSE IF a.fts_info = "NS" \/ b.fts_info = "NS"
       THEN IF b.fts_info # "NS" THEN "ns_gt"
            ELSE "ns_lt"
  ELSE IF a.fts_info # b.fts_info /\ a.fts_level = FTS_ROOTLEVEL /\ f.f_listdir = 0
       THEN IF a.fts_info = "D" THEN "dir_gt"
            ELSE IF b.fts_info = "D" THEN "dir_lt"
            ELSE "sortfcn"
  ELSE "sortfcn"

\* The return statement mastercmp reaches for (a, b).
mastercmp_ret(a, b) ==
  IF a.fts_info = "ERR" THEN "err_a"
  ELSE IF b.fts_info = "ERR" THEN "err_b"
  ELSE IF a.fts_info = "NS" \/ b.fts_info = "NS"
       THEN IF b.fts_info # "NS" THEN "ns_gt"
            ELSE IF a.fts_info # "NS" THEN "ns_lt"
            ELSE "ns_name"
  ELSE IF a.fts_info # b.fts_info /\ a.fts_level = FTS_ROOTLEVEL /\ f.f_listdir = 0
       THEN IF a.fts_info = "D" THEN "dir_gt"
            ELSE IF b.fts_info = "D" THEN "dir_lt"
            ELSE "sortfcn"
  ELSE "sortfcn"

\* The value that return statement yields.
mastercmp_val(r, a, b) ==
  CASE r \in {"err_a", "err_b"} -> 0
    [] r \in {"ns_gt", "dir_gt"} -> 1
    [] r \in {"ns_lt", "dir_lt"} -> -1
    [] r = "ns_name" -> namecmp(a, b)
    [] r = "sortfcn" -> CallSortfcn(sortfcn, a, b)

mastercmp(a, b) == mastercmp_val(mastercmp_ret(a, b), a, b)

-----------------------------------------------------------------------------
(* The file system the walks run over.  A name is a tuple of character     *)
(* codes; kids are in directory order (not sorted).                        *)

St(size, mtime, atime, ctime, blocks, ino, nlink, uid, gid) ==
  [st_size |-> size, st_mtime |-> mtime, st_atime |-> atime, st_ctime |-> ctime,
   st_blocks |-> blocks, st_ino |-> ino, st_nlink |-> nlink, st_uid |-> uid,
   st_gid |-> gid]

Node(name, kind, readable, kids, st) ==
  [name |-> name, kind |-> kind, readable |-> readable, kids |-> kids, st |-> st]

FS ==
  ("." :> Node(<<46>>, "dir", TRUE, <<"f", "e", ".hf", "d">>,
               St(4, 5, 5, 5, 8, 2, 4, 0, 0)))
  @@ ("f" :> Node(<<102>>, "file", TRUE, <<>>, St(100, 1, 7, 3, 200, 11, 1, 1000, 100)))
  @@ (".hf" :> Node(<<46, 104>>, "file", TRUE, <<>>, St(7, 2, 2, 2, 16, 12, 1, 0, 0)))
  @@ ("e" :> Node(<<101>>, "dir", TRUE, <<"e/.p">>, St(4, 3, 1, 9, 8, 13, 2, 77, 100)))
  @@ ("e/.p" :> Node(<<46, 112>>, "file", TRUE, <<>>, St(999, 4, 4, 4, 2000, 14, 1, 0, 0)))
  @@ ("d" :> Node(<<100>>, "dir", TRUE,
                  <<"d/s", "d/b", "d/.c", "d/.k", "d/u", "d/x">>,
                  St(4, 9, 2, 1, 8, 15, 5, 0, 100)))
  @@ ("d/s" :> Node(<<115>>, "dir", TRUE, <<"d/s/t", "d/s/c">>,
                    St(4, 6, 6, 6, 8, 16, 3, 0, 0)))
  @@ ("d/s/t" :> Node(<<116>>, "file", TRUE, <<>>, St(10, 7, 7, 7, 24, 17, 1, 77, 0)))
  @@ ("d/s/c" :> Node(<<99>>, "cycle", TRUE, <<>>, St(4, 8, 8, 8, 8, 15, 5, 0, 0)))
  @@ ("d/b" :> Node(<<98>>, "file", TRUE, <<>>, St(10, 3, 8, 2, 24, 18, 12, 1000, 100)))
  @@ ("d/.c" :> Node(<<46, 99>>, "file", TRUE, <<>>,
                     St(5000, 1, 1, 1, 9000, 1900, 100, 123456, 123456)))
  @@ ("d/.k" :> Node(<<46, 107>>, "dir", TRUE, <<"d/.k/v", "d/.k/m">>,
                     St(4, 2, 2, 2, 8, 20, 3, 0, 0)))
  @@ ("d/.k/v" :> Node(<<118>>, "file", TRUE, <<>>, St(1, 1, 1, 1, 8, 21, 1, 0, 0)))
  @@ ("d/.k/m" :> Node(<<109>>, "dir", TRUE, <<"d/.k/m/z">>, St(4, 1, 1, 1, 8, 22, 2, 0, 0)))
  @@ ("d/.k/m/z" :> Node(<<122>>, "file", TRUE, <<>>, St(1, 1, 1, 1, 8, 23, 1, 0, 0)))
  @@ ("d/u" :> Node(<<117>>, "dir", FALSE, <<>>, St(4, 4, 4, 4, 8, 24, 2, 0, 0)))
  @@ ("d/x" :> Node(<<120>>, "nostat", TRUE, <<>>, St(0, 0, 0, 0, 0, 0, 0, 0, 0)))
  @@ ("n" :> Node(<<110>>, "nostat", TRUE, <<>>, St(0, 0, 0, 0, 0, 0, 0, 0, 0)))
  @@ ("q" :> Node(<<113>>, "dir", TRUE, <<"q/u", "q/g">>, St(4, 2, 3, 4, 8, 30, 3, 0, 0)))
  @@ ("q/u" :> Node(<<117>>, "dir", FALSE, <<>>, St(4, 4, 4, 4, 8, 31, 2, 0, 0)))
  @@ ("q/g" :> Node(<<103>>, "file", TRUE, <<>>, St(12, 5, 5, 5, 24, 32, 1, 1000, 100)))

Ids == DOMAIN FS

\* the argument lists a call may be given; <<>> stands for no argument at all
ArgLists ==
  {<<>>, <<"f">>, <<"d">>, <<"e">>, <<"n">>, <<"q">>, <<"d/s">>, <<"f", "d">>, <<"e", "d">>,
   <<"d", ".hf", "e">>, <<"n", "f", "e">>}

\* the option letters a call may be given
Opts == {"R", "d", "l", "S", "r"}

\* getpwuid / getgrgid: the name of an id, "" when there is none
pw_name(uid) == IF uid = 0 THEN <<114, 111, 111, 116>> ELSE IF uid = 1000 THEN <<117>> ELSE <<>>

gr_name(gid) == IF gid = 0 THEN <<119, 104, 101, 101, 108>> ELSE <<>>

-----------------------------------------------------------------------------
(* The file-tree walk (fts), as ls.c uses it *)

NoEnt == [fts_info |-> "INIT"]

NoFts == [cur |-> NoEnt, instr |-> "NOINSTR", frames |-> <<>>]

\* fts_stat: the kind stat() reports for a node
fts_stat(id) ==
  CASE FS[id].kind = "nostat" -> "NS"
    [] FS[id].kind = "cycle" -> "DC"
    [] FS[id].kind = "dir" -> "D"
    [] OTHER -> "F"

\* An FTSENT.  how: "stat" (stat every entry), "nostat" (FTS_NOSTAT: only
\* directories are told apart) or "names" (FTS_NAMEONLY).
Ent(id, level, how) ==
  LET info == IF how = "names" THEN "NSOK"
              ELSE IF how = "nostat" /\ fts_stat(id) \in {"F", "NS"} THEN "NSOK"
              ELSE fts_stat(id)
  IN [id |-> id, fts_info |-> info, fts_level |-> level,
      fts_name |-> FS[id].name, fts_namelen |-> Len(FS[id].name), fts_path |-> id,
      fts_statp |-> IF info \in {"NSOK", "NS"} THEN [valid |-> FALSE] ELSE FS[id].st]

\* the name of a root entry is the argument as typed
ArgName(id) == IF id = "d/s" THEN <<100, 47, 115>> ELSE FS[id].name

RootEnt(id) ==
  [Ent(id, FTS_ROOTLEVEL, "stat") EXCEPT !.fts_name = ArgName(id),
                                          !.fts_namelen = Len(ArgName(id))]

\* insertion of x into a list sorted by the compar callback
RECURSIVE fts_insert(_, _)
fts_insert(s, x) ==
  IF s = <<>> THEN <<x>>
  ELSE IF mastercmp(s[1], x) > 0 THEN <<x>> \o s
  ELSE <<s[1]>> \o fts_insert(Tail(s), x)

RECURSIVE fts_sort_from(_, _)
fts_sort_from(sorted, rest) ==
  IF rest = <<>> THEN sorted
  ELSE fts_sort_from(fts_insert(sorted, rest[1]), Tail(rest))

\* fts_sort: by mastercmp, or left in the given order when compar is NULL (-f)
fts_sort(list) == IF f.f_nosort = 1 THEN list ELSE fts_sort_from(<<>>, list)

\* fts_open: the root entries, always stat'ed, sorted
fts_open(args) ==
  [cur |-> NoEnt, instr |-> "NOINSTR",
   frames |-> <<[dir |-> NoEnt,
                 rest |-> fts_sort([i \in 1..Len(args) |-> RootEnt(args[i])])]>>]

\* fts_build: the children of directory entry p, sorted; <<>> when p has none
\* or cannot be read
fts_build(p, how) ==
  IF ~FS[p.id].readable THEN <<>>
  ELSE fts_sort([i \in 1..Len(FS[p.id].kids) |-> Ent(FS[p.id].kids[i], p.fts_level + 1, how)])

\* how fts_children / fts_read collect the children under these options
ChildHow(options, ch_options) ==
  IF ch_options = "FTS_NAMEONLY" THEN "names"
  ELSE IF "FTS_NOSTAT" \in options THEN "nostat" ELSE "stat"

\* fts_children: before the first fts_read the root list, afterwards the
\* children of the current directory (NULL is <<>>)
fts_children(sp, options, ch_options) ==
  IF sp.cur.fts_info = "INIT" THEN sp.frames[1].rest
  ELSE IF sp.cur.fts_info # "D" THEN <<>>
  ELSE fts_build(sp.cur, ChildHow(options, ch_options))

\* fts_set(ftsp, p, FTS_SKIP)
fts_set(sp, instr) == [sp EXCEPT !.instr = instr]

\* fts_read: the walk after one more step; cur is the entry returned, and
\* cur.fts_info = "END" stands for the NULL that ends the walk
fts_read(sp, options) ==
  LET p == sp.cur
      n == Len(sp.frames)
  IN IF p.fts_info = "D" /\ sp.instr = "SKIP"
       THEN [sp EXCEPT !.cur = [p EXCEPT !.fts_info = "DP"], !.instr = "NOINSTR"]
     ELSE IF p.fts_info = "D" /\ fts_build(p, ChildHow(options, "0")) = <<>>
       THEN [sp EXCEPT !.cur = [p EXCEPT !.fts_info =
                                  IF FS[p.id].readable THEN "DP" ELSE "DNR"]]
     ELSE IF p.fts_info = "D"
       THEN LET kids == fts_build(p, ChildHow(options, "0"))
            IN [cur |-> kids[1], instr |-> "NOINSTR",
                frames |-> Append(sp.frames, [dir |-> p, rest |-> Tail(kids)])]
     ELSE IF sp.frames[n].rest # <<>>
       THEN [cur |-> sp.frames[n].rest[1], instr |-> "NOINSTR",
             frames |-> [sp.frames EXCEPT ![n].rest = Tail(@)]]
     ELSE IF sp.frames[n].dir.fts_info = "INIT"
       THEN [cur |-> [fts_info |-> "END"], instr |-> "NOINSTR", frames |-> <<>>]
     ELSE [cur |-> [sp.frames[n].dir EXCEPT !.fts_info = "DP"], instr |-> "NOINSTR",
           frames |-> SubSeq(sp.frames, 1, n - 1)]

-----------------------------------------------------------------------------
(* ls_main: option processing (ls.c:126-345) *)

FlagNames ==
  {"f_accesstime", "f_column", "f_columnacross", "f_flags", "f_inode", "f_listdir",
   "f_listdot", "f_longform", "f_newline", "f_nonprint", "f_nosort", "f_numericonly",
   "f_recursive", "f_reversesort", "f_sectime", "f_singlecol", "f_size",
   "f_statustime", "f_stream", "f_dirname", "f_type", "f_typedir", "f_whiteout"}

\* ls.c:128-133
ClearFlags == [n \in FlagNames |-> 0]

\* ls.c:135-150: the defaults for a terminal or not, and for the superuser
DefaultFlags(e) ==
  LET f1 == IF e.tty THEN [ClearFlags EXCEPT !.f_column = 1, !.f_nonprint = 1]
            ELSE [ClearFlags EXCEPT !.f_singlecol = 1]
  IN IF e.root THEN [f1 EXCEPT !.f_listdot = 1] ELSE f1

\* ls.c:157-258: one case of the option switch, on the state
\* s = [f, sortkey, blocksize, fts_options]
getopt_case(ch, s) ==
  CASE ch = "1" -> [s EXCEPT !.f = [@ EXCEPT !.f_singlecol = 1, !.f_column = 0,
                     !.f_columnacross = 0, !.f_longform = 0, !.f_stream = 0]]
    [] ch = "C" -> [s EXCEPT !.f = [@ EXCEPT !.f_column = 1, !.f_longform = 0,
                     !.f_columnacross = 0, !.f_singlecol = 0, !.f_stream = 0]]
    [] ch = "l" -> [s EXCEPT !.f = [@ EXCEPT !.f_longform = 1, !.f_numericonly = 0,
                     !.f_column = 0, !.f_columnacross = 0, !.f_singlecol = 0,
                     !.f_stream = 0]]
    [] ch = "m" -> [s EXCEPT !.f = [@ EXCEPT !.f_stream = 1, !.f_column = 0,
                     !.f_columnacross = 0, !.f_longform = 0, !.f_singlecol = 0]]
    [] ch = "x" -> [s EXCEPT !.f = [@ EXCEPT !.f_columnacross = 1, !.f_column = 0,
                     !.f_longform = 0, !.f_singlecol = 0, !.f_stream = 0]]
    [] ch = "n" -> [s EXCEPT !.f = [@ EXCEPT !.f_longform = 1, !.f_numericonly = 1,
                     !.f_column = 0, !.f_columnacross = 0, !.f_singlecol = 0,
                     !.f_stream = 0]]
    [] ch = "c" -> [s EXCEPT !.f = [@ EXCEPT !.f_statustime = 1, !.f_accesstime = 0]]
    [] ch = "u" -> [s EXCEPT !.f = [@ EXCEPT !.f_accesstime = 1, !.f_statustime = 0]]
    [] ch = "F" -> [s EXCEPT !.f = [@ EXCEPT !.f_type = 1]]
    [] ch = "L" -> [s EXCEPT !.fts_options = (@ \ {"FTS_PHYSICAL"}) \cup {"FTS_LOGICAL"}]
    [] ch = "R" -> [s EXCEPT !.f = [@ EXCEPT !.f_recursive = 1]]
    [] ch = "a" -> [s EXCEPT !.fts_options = @ \cup {"FTS_SEEDOT"},
                             !.f = [@ EXCEPT !.f_listdot = 1]]
    [] ch = "A" -> [s EXCEPT !.f = [@ EXCEPT !.f_listdot = 1]]
    [] ch = "d" -> [s EXCEPT !.f = [@ EXCEPT !.f_listdir = 1, !.f_recursive = 0]]
    [] ch = "f" -> [s EXCEPT !.f = [@ EXCEPT !.f_nosort = 1]]
    [] ch = "g" -> s
    [] ch = "i" -> [s EXCEPT !.f = [@ EXCEPT !.f_inode = 1]]
    [] ch = "k" -> [s EXCEPT !.blocksize = 1024]
    [] ch = "o" -> [s EXCEPT !.f = [@ EXCEPT !.f_flags = 1]]
    [] ch = "p" -> [s EXCEPT !.f = [@ EXCEPT !.f_typedir = 1]]
    [] ch = "q" -> [s EXCEPT !.f = [@ EXCEPT !.f_nonprint = 1]]
    [] ch = "r" -> [s EXCEPT !.f = [@ EXCEPT !.f_reversesort = 1]]
    [] ch = "S" -> [s EXCEPT !.sortkey = BY_SIZE]
    [] ch = "s" -> [s EXCEPT !.f = [@ EXCEPT !.f_size = 1]]
    [] ch = "T" -> [s EXCEPT !.f = [@ EXCEPT !.f_sectime = 1]]
    [] ch = "t" -> [s EXCEPT !.sortkey = BY_TIME]
    [] ch = "W" -> [s EXCEPT !.f = [@ EXCEPT !.f_whiteout = 1]]

\* A slip that leaves the sort key out of the test for FTS_NOSTAT.
Mut_walk_options(fl, key, options) ==
  options
    \cup (IF fl.f_longform = 0 /\ fl.f_inode = 0 /\ fl.f_size = 0 /\ fl.f_type = 0
             /\ fl.f_typedir = 0
          THEN {"FTS_NOSTAT"} ELSE {})
    \cup (IF fl.f_longform = 0 /\ fl.f_listdir = 0 /\ fl.f_type = 0
          THEN {"FTS_COMFOLLOW"} ELSE {})
    \cup (IF fl.f_whiteout = 1 THEN {"FTS_WHITEOUT"} ELSE {})

\* ls.c:263-284: the walk options that follow from the flags
walk_options(fl, key, options) ==
  options
    \cup (IF fl.f_longform = 0 /\ fl.f_inode = 0 /\ fl.f_size = 0 /\ fl.f_type = 0
             /\ fl.f_typedir = 0 /\ key = BY_NAME
          THEN {"FTS_NOSTAT"} ELSE {})
    \cup (IF fl.f_longform = 0 /\ fl.f_listdir = 0 /\ fl.f_type = 0
          THEN {"FTS_COMFOLLOW"} ELSE {})
    \cup (IF fl.f_whiteout = 1 THEN {"FTS_WHITEOUT"} ELSE {})

\* ls.c:286-291
select_blocksize(fl, bs) == IF fl.f_longform = 1 \/ fl.f_size = 1 THEN 1024 \div 512 ELSE bs

\* ls.c:293-333
select_sortfcn(fl, key) ==
  IF fl.f_reversesort = 1
  THEN CASE key = BY_NAME -> "revnamecmp"
         [] key = BY_SIZE -> "revsizecmp"
         [] key = BY_TIME -> IF fl.f_accesstime = 1 THEN "revacccmp"
                             ELSE IF fl.f_statustime = 1 THEN "revstatcmp"
                             ELSE "revmodcmp"
  ELSE CASE key = BY_NAME -> "namecmp"
         [] key = BY_SIZE -> "sizecmp"
         [] key = BY_TIME -> IF fl.f_accesstime = 1 THEN "acccmp"
                             ELSE IF fl.f_statustime = 1 THEN "statcmp"
                             ELSE "modcmp"

\* A slip that leaves the stream format out of the chain.
Mut_select_printfcn(fl) ==
  IF fl.f_singlecol = 1 THEN "printscol"
  ELSE IF fl.f_columnacross = 1 THEN "printacol"
  ELSE IF fl.f_longform = 1 THEN "printlong"
  ELSE "printcol"

\* ls.c:335-345
select_printfcn(fl) ==
  IF fl.f_singlecol = 1 THEN "printscol"
  ELSE IF fl.f_columnacross = 1 THEN "printacol"
  ELSE IF fl.f_longform = 1 THEN "printlong"
  ELSE IF fl.f_stream = 1 THEN "printstream"
  ELSE "printcol"

-----------------------------------------------------------------------------
(* display (ls.c:434-605) *)

Max(a, b) == IF a > b THEN a ELSE b

\* umaxtostr: the decimal digits of n
RECURSIVE umaxtostr(_)
umaxtostr(n) == IF n < 10 THEN <<48 + n>> ELSE umaxtostr(n \div 10) \o <<48 + (n % 10)>>

\* ls.c:461-466: the aggregates before the loop
display_init ==
  [entries |-> 0, maxlen |-> 0, maxblock |-> 0, maxinode |-> 0, maxnlink |-> 0,
   maxsize |-> 0, btotal |-> 0, maxuser |-> 0, maxgroup |-> 0, maxflags |-> 0,
   bcfile |-> 0, errs |-> <<>>, failed |-> FALSE, noprint |-> {}, np |-> <<>>,
   aborted |-> FALSE]

\* A slip that looks the user up whatever -n says.
Mut_display_user(sp) ==
  IF pw_name(sp.st_uid) # <<>> THEN pw_name(sp.st_uid) ELSE umaxtostr(sp.st_uid)

\* ls.c:520-534: the user and group strings of an entry
display_user(sp) ==
  IF f.f_numericonly = 0 /\ pw_name(sp.st_uid) # <<>> THEN pw_name(sp.st_uid)
  ELSE umaxtostr(sp.st_uid)

display_group(sp) ==
  IF f.f_numericonly = 0 /\ gr_name(sp.st_gid) # <<>> THEN gr_name(sp.st_gid)
  ELSE umaxtostr(sp.st_gid)

\* A slip that lets the dot files of a directory through.
Mut_display_filter_dot(p, cur) ==
  IF cur.fts_info = "ERR" \/ cur.fts_info = "NS" THEN "error"
  ELSE IF p.fts_info = "INIT"
       THEN IF cur.fts_info = "D" /\ f.f_listdir = 0 THEN "rootdir" ELSE ""
  ELSE ""

\* A slip that leaves the directories among the arguments in the root batch.
Mut_display_filter_root(p, cur) ==
  IF cur.fts_info = "ERR" \/ cur.fts_info = "NS" THEN "error"
  ELSE IF p.fts_info = "INIT" THEN ""
  ELSE IF cur.fts_name[1] = Dot /\ f.f_listdot = 0 THEN "dotfile" ELSE ""

\* ls.c:469-499: what keeps cur out of the listing: "error", "rootdir",
\* "dotfile", or "" when it survives
display_filter(p, cur) ==
  IF cur.fts_info = "ERR" \/ cur.fts_info = "NS" THEN "error"
  ELSE IF p.fts_info = "INIT"
       THEN IF cur.fts_info = "D" /\ f.f_listdir = 0 THEN "rootdir" ELSE ""
  ELSE IF cur.fts_name[1] = Dot /\ f.f_listdot = 0 THEN "dotfile" ELSE ""

\* ls.c:500-577: a surviving entry joins the aggregates; mfail is the number
\* of the malloc call that fails in this display call (0: none does)
display_measure(a, i, cur, mfail) ==
  LET needstats == f.f_inode = 1 \/ f.f_longform = 1 \/ f.f_size = 1
      sp == cur.fts_statp
      a1 == [a EXCEPT !.maxlen = Max(@, cur.fts_namelen)]
      a2 == IF needstats
            THEN [a1 EXCEPT !.maxblock = Max(@, sp.st_blocks),
                            !.maxinode = Max(@, sp.st_ino),
                            !.maxnlink = Max(@, sp.st_nlink),
                            !.maxsize = Max(@, sp.st_size),
                            !.btotal = @ + sp.st_blocks]
            ELSE a1
  IN IF needstats /\ f.f_longform = 1
     THEN IF Len(a.np) + 1 = mfail
          THEN [a2 EXCEPT !.errs = Append(@, [who |-> "malloc", what |-> "strerror"]),
                          !.failed = TRUE, !.aborted = TRUE]
          ELSE [a2 EXCEPT !.maxuser = Max(@, Len(display_user(sp))),
                          !.maxgroup = Max(@, Len(display_group(sp))),
                          !.maxflags = IF f.f_flags = 1 THEN Max(@, 1) ELSE @,
                          !.bcfile = IF FS[cur.id].kind \in {"chr", "blk"} THEN 1 ELSE @,
                          !.np = Append(@, [i |-> i, id |-> cur.id,
                                            user |-> display_user(sp),
                                            group |-> display_group(sp)]),
                          !.entries = @ + 1]
     ELSE [a2 EXCEPT !.entries = @ + 1]

\* A slip that widens the name column before the entry is filtered.
RECURSIVE Mut_display_scan(_, _, _, _, _)
Mut_display_scan(p, list, i, a, mfail) ==
  IF i > Len(list) \/ a.aborted THEN a
  ELSE LET cur == list[i]
           why == display_filter(p, cur)
           a0 == [a EXCEPT !.maxlen = Max(@, cur.fts_namelen)]
       IN IF why = "error"
          THEN Mut_display_scan(p, list, i + 1,
                 [a EXCEPT !.errs = Append(@, [who |-> cur.id, what |-> "strerror"]),
                           !.noprint = @ \cup {i}, !.failed = TRUE], mfail)
          ELSE IF why # ""
          THEN Mut_display_scan(p, list, i + 1, [a0 EXCEPT !.noprint = @ \cup {i}], mfail)
          ELSE Mut_display_scan(p, list, i + 1, display_measure(a, i, cur, mfail), mfail)

\* ls.c:467-578: the loop over the sibling list, from entry i on
RECURSIVE display_scan(_, _, _, _, _)
display_scan(p, list, i, a, mfail) ==
  IF i > Len(list) \/ a.aborted THEN a
  ELSE LET cur == list[i]
           why == display_filter(p, cur)
       IN IF why = "error"
          THEN display_scan(p, list, i + 1,
                 [a EXCEPT !.errs = Append(@, [who |-> cur.id, what |-> "strerror"]),
                           !.noprint = @ \cup {i}, !.failed = TRUE], mfail)
          ELSE IF why # ""
          THEN display_scan(p, list, i + 1, [a EXCEPT !.noprint = @ \cup {i}], mfail)
          ELSE display_scan(p, list, i + 1, display_measure(a, i, cur, mfail), mfail)

\* ls.c:583-597: the DISPLAY handed to the print function
display_d(a) ==
  IF f.f_inode = 1 \/ f.f_longform = 1 \/ f.f_size = 1
  THEN [entries |-> a.entries, maxlen |-> a.maxlen, bcfile |-> a.bcfile,
        btotal |-> a.btotal, s_block |-> Len(umaxtostr(a.maxblock)),
        s_flags |-> a.maxflags, s_group |-> a.maxgroup,
        s_inode |-> Len(umaxtostr(a.maxinode)), s_nlink |-> Len(umaxtostr(a.maxnlink)),
        s_size |-> Len(umaxtostr(a.maxsize)), s_user |-> a.maxuser]
  ELSE [entries |-> a.entries, maxlen |-> a.maxlen]

\* A slip that leaves out the return for a list with no entry to show.
Mut_display(p, list, mfail) ==
  LET a == display_scan(p, list, 1, display_init, mfail)
      kept == SelectSeq(list, LAMBDA e : display_filter(p, e) = "")
  IN IF list = <<>>
     THEN [errs |-> <<>>, failed |-> FALSE, items |-> <<>>, printed |-> FALSE, live |-> {}]
     ELSE IF a.aborted
     THEN [errs |-> a.errs, failed |-> TRUE, items |-> <<>>, printed |-> FALSE,
           live |-> {a.np[k].id : k \in 1..Len(a.np)}]
     ELSE [errs |-> a.errs, failed |-> a.failed,
           items |-> <<[type |-> "list",
                        parent |-> IF p.fts_info = "INIT" THEN "argv" ELSE p.id,
                        level |-> IF p.fts_info = "INIT" THEN -1 ELSE p.fts_level,
                        fcn |-> printfcn, d |-> display_d(a),
                        shown |-> [k \in 1..Len(kept) |-> kept[k].id],
                        np |-> a.np]>>,
           printed |-> TRUE,
           live |-> IF f.f_longform = 1 THEN {}
                    ELSE {a.np[k].id : k \in 1..Len(a.np)}]

\* The whole of display(p, list): what it writes to either channel, whether
\* it sets rval and output, and the annotations it leaves allocated.
display(p, list, mfail) ==
  LET a == display_scan(p, list, 1, display_init, mfail)
      kept == SelectSeq(list, LAMBDA e : display_filter(p, e) = "")
  IN IF list = <<>>
     THEN [errs |-> <<>>, failed |-> FALSE, items |-> <<>>, printed |-> FALSE, live |-> {}]
     ELSE IF a.aborted
     THEN [errs |-> a.errs, failed |-> TRUE, items |-> <<>>, printed |-> FALSE,
           live |-> {a.np[k].id : k \in 1..Len(a.np)}]
     ELSE IF a.entries = 0
     THEN [errs |-> a.errs, failed |-> a.failed, items |-> <<>>, printed |-> FALSE,
           live |-> {a.np[k].id : k \in 1..Len(a.np)}]
     ELSE [errs |-> a.errs, failed |-> a.failed,
           items |-> <<[type |-> "list",
                        parent |-> IF p.fts_info = "INIT" THEN "argv" ELSE p.id,
                        level |-> IF p.fts_info = "INIT" THEN -1 ELSE p.fts_level,
                        fcn |-> printfcn, d |-> display_d(a),
                        shown |-> [k \in 1..Len(kept) |-> kept[k].id],
                        np |-> a.np]>>,
           printed |-> TRUE,
           live |-> IF f.f_longform = 1 THEN {}
                    ELSE {a.np[k].id : k \in 1..Len(a.np)}]

\* the malloc calls of one display call that may fail (0: none does); at most
\* MaxMallocFail allocations fail in one call of ls_main
MallocFails(list) ==
  IF f.f_longform = 1
     /\ Cardinality({k \in 1..Len(err) : err[k].who = "malloc"}) < MaxMallocFail
  THEN 0..Len(list) ELSE {0}

-----------------------------------------------------------------------------
(* traverse (ls.c:360-427) *)

\* ls.c:383
ch_options_of(options) ==
  IF f.f_recursive = 0 /\ "FTS_NOSTAT" \in options THEN "FTS_NAMEONLY" ELSE "0"

\* A slip that passes over a hidden directory at root level too.
Mut_traverse_hidden(p) == p.fts_name[1] = Dot /\ f.f_listdot = 0

\* ls.c:389-391: a directory the loop passes over
traverse_hidden(p) ==
  p.fts_name[1] = Dot /\ p.fts_level # FTS_ROOTLEVEL /\ f.f_listdot = 0

\* A slip that notes output although no header was written.
Mut_traverse_header_set(p, argc) ==
  IF output # 0
  THEN [items |-> <<[type |-> "hdr", blank |-> TRUE, path |-> p.fts_path, level |-> p.fts_level]>>, output |-> output]
  ELSE IF argc > 1
  THEN [items |-> <<[type |-> "hdr", blank |-> FALSE, path |-> p.fts_path, level |-> p.fts_level]>>, output |-> 1]
  ELSE [items |-> <<>>, output |-> 1]

\* A slip that forgets to note that the first header was written.
Mut_traverse_header(p, argc) ==
  IF output # 0
  THEN [items |-> <<[type |-> "hdr", blank |-> TRUE, path |-> p.fts_path, level |-> p.fts_level]>>, output |-> output]
  ELSE IF argc > 1
  THEN [items |-> <<[type |-> "hdr", blank |-> FALSE, path |-> p.fts_path, level |-> p.fts_level]>>, output |-> output]
  ELSE [items |-> <<>>, output |-> output]

\* ls.c:398-404: the header of a directory, and output afterwards
traverse_header(p, argc) ==
  IF output # 0
  THEN [items |-> <<[type |-> "hdr", blank |-> TRUE, path |-> p.fts_path, level |-> p.fts_level]>>, output |-> output]
  ELSE IF argc > 1
  THEN [items |-> <<[type |-> "hdr", blank |-> FALSE, path |-> p.fts_path, level |-> p.fts_level]>>, output |-> 1]
  ELSE [items |-> <<>>, output |-> output]

\* A slip that never tells the walk to skip.
Mut_traverse_skip(chp) == FALSE

\* ls.c:409: whether the walk is told to skip the directory just listed
traverse_skip(chp) == f.f_recursive = 0 /\ chp # <<>>

\* A slip that lets a later -R bring the walk back.
Mut_traverse_rootonly == f.f_listdir = 1 /\ f.f_recursive = 0

\* ls.c:376: whether traverse returns after the root batch
traverse_rootonly == f.f_listdir = 1

\* ls.c:347-350: the argument vector handed to traverse
traverse_args == IF argv = <<>> THEN <<".">> ELSE argv

\* the record of one entry fts_read returned: whether a case of the switch
\* took it, whether the walk was told to skip it, and what had been written
\* when it arrived
Event(p, taken, skip) ==
  [info |-> p.fts_info, id |-> p.id, level |-> p.fts_level, name |-> p.fts_name,
   taken |-> taken, skip |-> skip, outlen |-> Len(out), errlen |-> Len(err),
   output |-> output]

\* the record of one call display(p, list): its arguments, what it wrote,
\* whether it set rval and output, and the annotations it left allocated
DisplayCall(p, list, r) ==
  [p |-> p, list |-> list, errs |-> r.errs, items |-> r.items, live |-> r.live,
   printed |-> r.printed, failed |-> r.failed]

NoCmp == [at |-> "none", val |-> 0]

-----------------------------------------------------------------------------
(* The actions of a process that calls ls_main again and again *)

OptSeqs == UNION {[1..n -> Opts] : n \in 0..MaxFlags}

Envs == [tty : BOOLEAN, root : BOOLEAN]

\* the calls of the long-running process write to a file or a pipe; the
\* terminal defaults are exercised by CallAny
CallEnvs == {e \in Envs : ~e.tty}

Init ==
  /\ pc = "idle"
  /\ f = ClearFlags
  /\ sortkey = BY_NAME
  /\ blocksize = 0
  /\ rval = 0
  /\ output = 0
  /\ sortfcn = "NULL"
  /\ printfcn = "NULL"
  /\ env = [tty |-> FALSE, root |-> FALSE]
  /\ optv = <<>>
  /\ argv = <<>>
  /\ optind = 1
  /\ fts_options = {}
  /\ ftsp = NoFts
  /\ ret = -1
  /\ out = <<>>
  /\ err = <<>>
  /\ events = <<>>
  /\ np_live = {}
  /\ calls = <<>>
  /\ cmp_a = NoEnt
  /\ cmp_b = NoEnt
  /\ cmp_ret = NoCmp

\* ls.c:116-154: entry to ls_main, up to the option loop
Call ==
  /\ pc = "idle"
  /\ \E e \in CallEnvs, o \in OptSeqs :
       /\ env' = e
       /\ optv' = o
       /\ f' = DefaultFlags(e)
  /\ output' = 0
  /\ optind' = 1
  /\ fts_options' = {"FTS_PHYSICAL", "FTS_NOCHDIR"}
  /\ pc' = "getopt"
  /\ UNCHANGED <<sortkey, blocksize, rval, sortfcn, printfcn, argv, ftsp, ret, out,
                 err, events, np_live, calls, cmp_a, cmp_b, cmp_ret>>

\* ls.c:155-259: one turn of the option loop
Getopt ==
  /\ pc = "getopt"
  /\ optind <= Len(optv)
  /\ LET s == getopt_case(optv[optind],
                          [f |-> f, sortkey |-> sortkey, blocksize |-> blocksize,
                           fts_options |-> fts_options])
     IN /\ f' = s.f
        /\ sortkey' = s.sortkey
        /\ blocksize' = s.blocksize
        /\ fts_options' = s.fts_options
  /\ optind' = optind + 1
  /\ UNCHANGED <<pc, rval, output, sortfcn, printfcn, env, optv, argv, ftsp, ret, out,
                 err, events, np_live, calls, cmp_a, cmp_b, cmp_ret>>

\* ls.c:260-345: the options are read; the walk options, block size, sort
\* and print functions are chosen
Configure ==
  /\ pc = "getopt"
  /\ optind > Len(optv)
  /\ \E args \in ArgLists : argv' = args
  /\ fts_options' = walk_options(f, sortkey, fts_options)
  /\ blocksize' = select_blocksize(f, blocksize)
  /\ sortfcn' = select_sortfcn(f, sortkey)
  /\ printfcn' = select_printfcn(f)
  /\ pc' = "traverse"
  /\ UNCHANGED <<f, sortkey, rval, output, env, optv, optind, ftsp, ret, out, err,
                 events, np_live, calls, cmp_a, cmp_b, cmp_ret>>

\* ls.c:367-373: fts_open fails
FtsOpenFail ==
  /\ pc = "traverse"
  /\ err' = Append(err, [who |-> "fts_open", what |-> "strerror"])
  /\ rval' = EXIT_FAILURE
  /\ ret' = EXIT_FAILURE
  /\ pc' = "done"
  /\ UNCHANGED <<f, sortkey, blocksize, output, sortfcn, printfcn, env, optv, argv,
                 optind, fts_options, ftsp, out, events, np_live, calls,
                 cmp_a, cmp_b, cmp_ret>>

\* ls.c:375-377: what the display of the root batch leaves behind; r is what
\* the call display(NULL, list) did
traverse_root(sp, list, r) ==
  /\ ftsp' = sp
  /\ out' = out \o r.items
  /\ err' = err \o r.errs
  /\ rval' = IF r.failed THEN 1 ELSE rval
  /\ output' = IF r.printed THEN 1 ELSE output
  /\ np_live' = np_live \cup r.live
  /\ calls' = Append(calls, DisplayCall(NoEnt, list, r))
  /\ IF traverse_rootonly
     THEN pc' = "done" /\ ret' = (IF r.failed THEN 1 ELSE rval)
     ELSE pc' = "read" /\ ret' = ret

\* ls.c:367-377: fts_open succeeds and the root batch is displayed
TraverseOpen ==
  /\ pc = "traverse"
  /\ LET sp == fts_open(traverse_args)
         list == fts_children(sp, fts_options, "0")
     IN \E mfail \in MallocFails(list) :
          traverse_root(sp, list, display(NoEnt, list, mfail))
  /\ UNCHANGED <<f, sortkey, blocksize, sortfcn, printfcn, env, optv, argv, optind,
                 fts_options, events, cmp_a, cmp_b, cmp_ret>>

\* ls.c:398-410: what a directory event that is taken leaves behind; h is the
\* header step, chp the children, r what the call display(p, chp) did
traverse_dir_shown(sp, p, h, chp, r) ==
  /\ out' = out \o h.items \o r.items
  /\ err' = err \o r.errs
  /\ rval' = IF r.failed THEN 1 ELSE rval
  /\ output' = IF r.printed THEN 1 ELSE h.output
  /\ np_live' = np_live \cup r.live
  /\ calls' = Append(calls, DisplayCall(p, chp, r))
  /\ ftsp' = IF traverse_skip(chp) THEN fts_set(sp, "SKIP") ELSE sp
  /\ events' = Append(events, Event(p, TRUE, traverse_skip(chp)))

\* ls.c:406-407: the children are fetched and displayed
traverse_dir_taken(sp, p, h, chp) ==
  \E mfail \in MallocFails(chp) : traverse_dir_shown(sp, p, h, chp, display(p, chp, mfail))

\* ls.c:388-411: the FTS_D case for the entry p that fts_read returned
traverse_dir(sp, p) ==
  /\ p.fts_info = "D"
  /\ IF traverse_hidden(p)
     THEN /\ ftsp' = sp
          /\ events' = Append(events, Event(p, FALSE, FALSE))
          /\ UNCHANGED <<out, err, rval, output, np_live, calls>>
     ELSE traverse_dir_taken(sp, p, traverse_header(p, Len(traverse_args)),
                             fts_children(sp, fts_options, ch_options_of(fts_options)))

\* ls.c:385-411: fts_read returns a directory in pre-order
ReadD ==
  /\ pc = "read"
  /\ traverse_dir(fts_read(ftsp, fts_options), fts_read(ftsp, fts_options).cur)
  /\ UNCHANGED <<pc, f, sortkey, blocksize, sortfcn, printfcn, env, optv, argv, optind,
                 fts_options, ret, cmp_a, cmp_b, cmp_ret>>

\* ls.c:412-414: fts_read returns a directory that causes a cycle
ReadDC ==
  /\ pc = "read"
  /\ LET sp == fts_read(ftsp, fts_options)
     IN /\ sp.cur.fts_info = "DC"
        /\ ftsp' = sp
        /\ err' = Append(err, [who |-> sp.cur.id, what |-> "cycle"])
        /\ events' = Append(events, Event(sp.cur, TRUE, FALSE))
  /\ UNCHANGED <<pc, f, sortkey, blocksize, rval, output, sortfcn, printfcn, env, optv,
                 argv, optind, fts_options, ret, out, np_live, calls, cmp_a, cmp_b, cmp_ret>>

\* A slip that reports the unreadable directory and leaves rval alone.
Mut_ReadErr ==
  /\ pc = "read"
  /\ LET sp == fts_read(ftsp, fts_options)
     IN /\ sp.cur.fts_info \in {"DNR", "ERR"}
        /\ ftsp' = sp
        /\ err' = Append(err, [who |-> sp.cur.id, what |-> "strerror"])
        /\ events' = Append(events, Event(sp.cur, TRUE, FALSE))
  /\ UNCHANGED <<pc, f, sortkey, blocksize, rval, output, sortfcn, printfcn, env, optv,
                 argv, optind, fts_options, ret, out, np_live, calls, cmp_a, cmp_b,
                 cmp_ret>>

\* ls.c:415-419: fts_read returns an unreadable directory or an error entry
ReadErr ==
  /\ pc = "read"
  /\ LET sp == fts_read(ftsp, fts_options)
     IN /\ sp.cur.fts_info \in {"DNR", "ERR"}
        /\ ftsp' = sp
        /\ err' = Append(err, [who |-> sp.cur.id, what |-> "strerror"])
        /\ events' = Append(events, Event(sp.cur, TRUE, FALSE))
  /\ rval' = 1
  /\ UNCHANGED <<pc, f, sortkey, blocksize, output, sortfcn, printfcn, env, optv, argv,
                 optind, fts_options, ret, out, np_live, calls, cmp_a, cmp_b, cmp_ret>>

\* ls.c:385-386: fts_read returns an entry no case of the switch takes
ReadOther ==
  /\ pc = "read"
  /\ LET sp == fts_read(ftsp, fts_options)
     IN /\ sp.cur.fts_info \notin {"D", "DC", "DNR", "ERR", "END"}
        /\ ftsp' = sp
        /\ events' = Append(events, Event(sp.cur, FALSE, FALSE))
  /\ UNCHANGED <<pc, f, sortkey, blocksize, rval, output, sortfcn, printfcn, env, optv,
                 argv, optind, fts_options, ret, out, err, np_live, calls, cmp_a, cmp_b, cmp_ret>>

\* ls.c:385, 421, 351: fts_read returns NULL with errno clear; traverse and
\* ls_main return
ReadEnd ==
  /\ pc = "read"
  /\ LET sp == fts_read(ftsp, fts_options)
     IN /\ sp.cur.fts_info = "END"
        /\ ftsp' = sp
  /\ ret' = rval
  /\ pc' = "done"
  /\ UNCHANGED <<f, sortkey, blocksize, rval, output, sortfcn, printfcn, env, optv, argv,
                 optind, fts_options, out, err, events, np_live, calls,
                 cmp_a, cmp_b, cmp_ret>>

\* ls.c:421-426, 351: fts_read returns NULL with errno set
ReadFail ==
  /\ pc = "read"
  /\ ftsp.frames # <<>>
  /\ err' = Append(err, [who |-> "fts_read", what |-> "strerror"])
  /\ rval' = EXIT_FAILURE
  /\ ret' = EXIT_FAILURE
  /\ pc' = "done"
  /\ UNCHANGED <<f, sortkey, blocksize, output, sortfcn, printfcn, env, optv, argv,
                 optind, fts_options, ftsp, out, events, np_live, calls,
                 cmp_a, cmp_b, cmp_ret>>

\* ls.c:351: ls_main has returned; its locals are gone, the globals stay
Return ==
  /\ pc = "done"
  /\ pc' = "idle"
  /\ env' = [tty |-> FALSE, root |-> FALSE]
  /\ optv' = <<>>
  /\ argv' = <<>>
  /\ optind' = 1
  /\ fts_options' = {}
  /\ ftsp' = NoFts
  /\ ret' = -1
  /\ out' = <<>>
  /\ err' = <<>>
  /\ events' = <<>>
  /\ np_live' = {}
  /\ calls' = <<>>
  /\ UNCHANGED <<f, sortkey, blocksize, rval, output, sortfcn, printfcn,
                 cmp_a, cmp_b, cmp_ret>>

Next ==
  \/ Call
  \/ Return
  \/ Getopt
  \/ Configure
  \/ FtsOpenFail
  \/ TraverseOpen
  \/ ReadD
  \/ ReadDC
  \/ ReadErr
  \/ ReadOther
  \/ ReadEnd
  \/ ReadFail

Spec == Init /\ [][Next]_vars

-----------------------------------------------------------------------------
(* mastercmp applied to pairs of entries of one sibling list, under every  *)
(* sort configuration ls_main can select                                   *)

CmpNames == {<<97>>, <<98>>}

CmpStats ==
  {[st_size |-> s, st_mtime |-> m, st_atime |-> MaxStat - m,
    st_ctime |-> (s + m) % (MaxStat + 1)] : s \in 0..MaxStat, m \in 0..MaxStat}

\* the entries a sibling list of the given level may hold
CmpEntries(level) ==
  {[fts_info |-> i, fts_level |-> level, fts_name |-> n, fts_statp |-> st] :
     i \in {"D", "F", "SL"}, n \in CmpNames, st \in CmpStats}
  \cup {[fts_info |-> i, fts_level |-> level, fts_name |-> n,
         fts_statp |-> [valid |-> FALSE]] : i \in {"NS", "ERR"}, n \in CmpNames}

\* the flag settings that bear on the comparison
CmpFlags ==
  {[ClearFlags EXCEPT !.f_listdir = l, !.f_reversesort = r, !.f_accesstime = t[1],
                      !.f_statustime = t[2]] :
     l \in {0, 1}, r \in {0, 1}, t \in {<<0, 0>>, <<1, 0>>, <<0, 1>>}}

InitCmp ==
  /\ pc = "cmp"
  /\ f \in CmpFlags
  /\ sortkey \in {BY_NAME, BY_SIZE, BY_TIME}
  /\ sortfcn = select_sortfcn(f, sortkey)
  /\ blocksize = 0
  /\ rval = 0
  /\ output = 0
  /\ printfcn = "NULL"
  /\ env = [tty |-> FALSE, root |-> FALSE]
  /\ optv = <<>>
  /\ argv = <<>>
  /\ optind = 1
  /\ fts_options = {}
  /\ ftsp = NoFts
  /\ ret = -1
  /\ out = <<>>
  /\ err = <<>>
  /\ events = <<>>
  /\ np_live = {}
  /\ calls = <<>>
  /\ cmp_a = NoEnt
  /\ cmp_b = NoEnt
  /\ cmp_ret = NoCmp

\* the sort calls mastercmp(&a, &b) on two entries of one list
Compare ==
  /\ pc = "cmp"
  /\ cmp_ret.at = "none"
  /\ \E level \in {FTS_ROOTLEVEL, FTS_ROOTLEVEL + 1} :
       \E a \in CmpEntries(level), b \in CmpEntries(level) :
         /\ cmp_a' = a
         /\ cmp_b' = b
         /\ cmp_ret' = [at |-> mastercmp_ret(a, b), val |-> mastercmp(a, b)]
  /\ UNCHANGED <<f, sortfcn>>
  /\ UNCHANGED lsvars

NextCmp == Compare

SpecCmp == InitCmp /\ [][NextCmp]_vars

-----------------------------------------------------------------------------
(* The first call of a process, under the options that choose between the  *)
(* output formats, up to the display of the root batch                     *)

ModeOpts == {"1", "C", "l", "m", "n", "x"}

OptLetters == ModeOpts \cup {"d", "S"}

MaxOptLen == 2     \* option letters in one call of this specification

AnyOptSeqs == UNION {[1..n -> OptLetters] : n \in 0..MaxOptLen}

\* ls.c:116-154: entry to ls_main, up to the option loop
CallAny ==
  /\ pc = "idle"
  /\ \E e \in Envs, o \in AnyOptSeqs :
       /\ env' = e
       /\ optv' = o
       /\ f' = DefaultFlags(e)
  /\ output' = 0
  /\ optind' = 1
  /\ fts_options' = {"FTS_PHYSICAL", "FTS_NOCHDIR"}
  /\ pc' = "getopt"
  /\ UNCHANGED <<sortkey, blocksize, rval, sortfcn, printfcn, argv, ftsp, ret, out,
                 err, events, np_live, calls, cmp_a, cmp_b, cmp_ret>>

NextOpt ==
  \/ CallAny
  \/ Getopt
  \/ Configure
  \/ TraverseOpen

SpecOpt == Init /\ [][NextOpt]_vars

-----------------------------------------------------------------------------
(* What the claims speak of *)

HdrIdx == {i \in 1..Len(out) : out[i].type = "hdr"}

ListIdx == {i \in 1..Len(out) : out[i].type = "list"}

MallocFailed == \E k \in 1..Len(err) : err[k].who = "malloc"

\* the walk ran to its end: fts_read returned NULL with errno clear
WalkEnded == pc = "done" /\ ftsp.cur.fts_info = "END"

\* the directory events the switch of traverse took
TakenDirs == {k \in 1..Len(events) : events[k].info = "D" /\ events[k].taken}

\* what the event numbered k wrote to standard output
Written(k) ==
  SubSeq(out, events[k].outlen + 1,
         IF k < Len(events) THEN events[k + 1].outlen ELSE Len(out))

\* the configuration this call's own options give a process that has made no
\* earlier call
RECURSIVE own_opts(_, _)
own_opts(o, s) == IF o = <<>> THEN s ELSE own_opts(Tail(o), getopt_case(Head(o), s))

Own ==
  own_opts(optv, [f |-> DefaultFlags(env), sortkey |-> BY_NAME, blocksize |-> 0,
                  fts_options |-> {"FTS_PHYSICAL", "FTS_NOCHDIR"}])

\* the pair mastercmp was applied to is a root-level pair of stat-able,
\* non-error entries of which exactly one is a directory, with -d off
RootDirPair ==
  /\ cmp_ret.at # "none"
  /\ cmp_a.fts_level = FTS_ROOTLEVEL
  /\ f.f_listdir = 0
  /\ cmp_a.fts_info \notin {"NS", "ERR"}
  /\ cmp_b.fts_info \notin {"NS", "ERR"}
  /\ (cmp_a.fts_info = "D") # (cmp_b.fts_info = "D")

-----------------------------------------------------------------------------
(* C1: the exit status of a run is non-zero if an error occurred in that   *)
(* run and zero otherwise, and every error written to the error channel    *)
(* has set the failure flag.  As claimed; the directory-cycle report       *)
(* (ls.c:412-414) refutes it.                                              *)
C1_ExitStatusTellsErrors ==
  /\ err # <<>> => rval # 0
  /\ pc = "done" => (ret # 0 <=> err # <<>>)

(* C2: for a root-level pair of stat-able, non-error entries of which      *)
(* exactly one is a directory, with -d off, mastercmp orders the directory *)
(* before the non-directory.  As claimed; ls.c:637-640 returns the         *)
(* opposite sign.                                                          *)
C2_DirectoryComparesLess ==
  RootDirPair =>
    /\ cmp_a.fts_info = "D" => cmp_ret.val < 0
    /\ cmp_b.fts_info = "D" => cmp_ret.val > 0

(* C3: for such a pair the result of mastercmp is decided by which of the  *)
(* two is the directory alone: it is the same under every sort key and     *)
(* both settings of the reversed toggle, and the field comparator is not   *)
(* called.                                                                 *)
C3_GroupingIgnoresSortKey ==
  RootDirPair =>
    /\ cmp_ret.at \in {"dir_gt", "dir_lt"}
    /\ cmp_ret.at = (IF cmp_a.fts_info = "D" THEN "dir_gt" ELSE "dir_lt")
    /\ cmp_ret.val = (IF cmp_a.fts_info = "D" THEN 1 ELSE -1)

\* C3's case, where the field comparator would have ordered the pair the
\* other way round
C3_Witness ==
  /\ RootDirPair
  /\ sortfcn = "revsizecmp"
  /\ f.f_reversesort = 1
  /\ Sign(CallSortfcn(sortfcn, cmp_a, cmp_b)) = -Sign(cmp_ret.val)

\* the entries that may share a sibling list with the pair compared
Siblings == CmpEntries(cmp_a.fts_level)

Antisymmetric ==
  Sign(mastercmp(cmp_a, cmp_b)) = -Sign(mastercmp(cmp_b, cmp_a))

Transitive ==
  \A c \in Siblings :
    mastercmp(cmp_a, cmp_b) < 0 /\ mastercmp(cmp_b, c) < 0 => mastercmp(cmp_a, c) < 0

EqualTransitiveOver(S) ==
  \A c \in S :
    mastercmp(cmp_a, cmp_b) = 0 /\ mastercmp(cmp_b, c) = 0 => mastercmp(cmp_a, c) = 0

(* C4, as claimed: over the entries of one sibling list, error nodes       *)
(* included, mastercmp is antisymmetric and transitive and 'compares       *)
(* equal' is transitive.  An error node compares equal to two entries that *)
(* are ordered.                                                            *)
C4_StrictWeakOrder ==
  cmp_ret.at # "none" =>
    Antisymmetric /\ Transitive /\ EqualTransitiveOver(Siblings)

(* C4, amended: over the entries of one sibling list, error nodes          *)
(* included, mastercmp is antisymmetric and transitive; 'compares equal'   *)
(* is transitive over the entries that are not error nodes.                *)
C4_OrderApartFromErrors ==
  cmp_ret.at # "none" =>
    /\ cmp_ret.val = mastercmp(cmp_a, cmp_b)
    /\ Antisymmetric
    /\ Transitive
    /\ (cmp_a.fts_info # "ERR" /\ cmp_b.fts_info # "ERR"
          => EqualTransitiveOver({c \in Siblings : c.fts_info # "ERR"}))

\* a root-level chain file < directory < not-stat-able entry
C4_Witness ==
  /\ cmp_ret.at = "dir_lt"
  /\ cmp_ret.val < 0
  /\ cmp_a.fts_info = "F"
  /\ cmp_b.fts_info = "D"
  /\ \E c \in Siblings :
       c.fts_info = "NS" /\ mastercmp(cmp_b, c) < 0 /\ mastercmp(cmp_a, c) < 0

(* C5: nothing persists across invocations: the sort function, block size  *)
(* and walk options a call runs with, and its exit status, are those its   *)
(* own options and its own errors give.  As claimed; sortkey, blocksize    *)
(* and rval (ls.c:82-84, 113) are not among the settings ls.c:126-133      *)
(* clears.                                                                 *)
C5_NoStateAcrossCalls ==
  /\ pc \in {"traverse", "read", "done"} =>
       /\ sortkey = Own.sortkey
       /\ sortfcn = select_sortfcn(Own.f, Own.sortkey)
       /\ blocksize = select_blocksize(Own.f, Own.blocksize)
       /\ fts_options = walk_options(Own.f, Own.sortkey, Own.fts_options)
       /\ printfcn = select_printfcn(Own.f)
  /\ pc = "done" /\ err = <<>> => ret = 0

-----------------------------------------------------------------------------
Hdr(blank, e) == [type |-> "hdr", blank |-> blank, path |-> e.id, level |-> e.level]

(* C6: a directory event the switch takes writes a header preceded by a    *)
(* blank line if something was written before it in this run, else a       *)
(* header without blank line if more than one root argument was given,     *)
(* else no header; so at most one header of a run lacks the blank line and *)
(* it is the first thing written.                                          *)
C6_HeaderRule ==
  /\ \A k \in TakenDirs :
       LET w == Written(k)
           e == events[k]
       IN /\ IF e.output # 0 THEN w # <<>> /\ w[1] = Hdr(TRUE, e)
             ELSE IF Len(traverse_args) > 1
                  THEN w # <<>> /\ w[1] = Hdr(FALSE, e) /\ e.outlen = 0
             ELSE \A i \in 1..Len(w) : w[i].type # "hdr"
          /\ \A i \in 2..Len(w) : w[i].type # "hdr"
  /\ \A i \in HdrIdx : ~out[i].blank => i = 1

\* two root directories, the first written without and the second with the
\* blank line
C6_Witness ==
  /\ pc = "done"
  /\ argv = <<"e", "d">>
  /\ Len(out) > 1
  /\ out[1].type = "hdr" /\ ~out[1].blank
  /\ \E i \in HdrIdx : i > 1 /\ out[i].blank

\* a readable directory all of whose children are dot files
AllHidden(id) ==
  /\ FS[id].kind = "dir"
  /\ FS[id].readable
  /\ FS[id].kids # <<>>
  /\ \A i \in 1..Len(FS[id].kids) : FS[FS[id].kids[i]].name[1] = Dot

RootArgs == {traverse_args[i] : i \in 1..Len(traverse_args)}

\* at the end of a walk every directory among the arguments has had its
\* directory event taken
RootDirsTaken ==
  \A a \in RootArgs :
    fts_stat(a) = "D" =>
      \E k \in TakenDirs : events[k].id = a /\ events[k].level = FTS_ROOTLEVEL

(* C7, as claimed: with dot files hidden, the directory event of a         *)
(* directory all of whose children are dot files writes nothing at all,    *)
(* and its sibling directories still get their events.  The header is      *)
(* written before the children are looked at (ls.c:398-407).               *)
C7_NoOutputForHiddenOnly ==
  /\ \A k \in TakenDirs :
       AllHidden(events[k].id) /\ f.f_listdot = 0 => Written(k) = <<>>
  /\ WalkEnded /\ (\E a \in RootArgs : AllHidden(a)) => RootDirsTaken

(* C7, amended: with dot files hidden, the directory event of a directory  *)
(* all of whose children are dot files renders no entries; it writes its   *)
(* header exactly when something was written before it in this run or more *)
(* than one root argument was given, and nothing else; its sibling         *)
(* directories still get their events.                                     *)
C7_NoEntriesForHiddenOnly ==
  /\ \A k \in TakenDirs :
       AllHidden(events[k].id) /\ f.f_listdot = 0 =>
         LET w == Written(k)
         IN /\ \A i \in 1..Len(w) : w[i].type # "list"
            /\ Len(w) <= 1
            /\ w # <<>> <=> (events[k].output # 0 \/ Len(traverse_args) > 1)
  /\ WalkEnded /\ (\E a \in RootArgs : AllHidden(a)) => RootDirsTaken

\* the hidden-only directory e came first of two, wrote its header and no
\* entries, and the walk went on to its sibling d
C7_Witness ==
  /\ WalkEnded
  /\ f.f_listdot = 0
  /\ argv = <<"e", "d">>
  /\ \E k \in TakenDirs :
       /\ events[k].id = "e"
       /\ Len(Written(k)) = 1
       /\ \E j \in TakenDirs : j > k /\ events[j].id = "d"

(* C8: with recursion off, a directory whose children were listed is       *)
(* skipped by the walk, so only directories among the root arguments get a *)
(* header or have their children rendered, and each at most once.          *)
C8_NoDescentWithoutR ==
  pc \in {"read", "done"} /\ f.f_recursive = 0 =>
    /\ \A i \in 1..Len(out) : out[i].level <= FTS_ROOTLEVEL
    /\ \A k \in TakenDirs :
         /\ events[k].level = FTS_ROOTLEVEL
         /\ (\E i \in 1..Len(Written(k)) : Written(k)[i].type = "list") => events[k].skip
         /\ events[k].skip /\ k < Len(events) =>
              events[k + 1].info = "DP" /\ events[k + 1].id = events[k].id
    /\ \A i, j \in ListIdx : out[i].parent = out[j].parent => i = j
    /\ \A j, k \in TakenDirs : events[j].id = events[k].id => j = k

\* without -R the children of d were listed, its subdirectory s among them,
\* and the walk ended without entering s
C8_Witness ==
  /\ WalkEnded
  /\ f.f_recursive = 0
  /\ \E i \in ListIdx :
       /\ out[i].parent = "d"
       /\ \E n \in 1..Len(out[i].shown) : out[i].shown[n] = "d/s"

\* what the root batch wrote to standard error
RootErrs == SubSeq(err, 1, IF events = <<>> THEN Len(err) ELSE events[1].errlen)

RootAborted == \E k \in 1..Len(RootErrs) : RootErrs[k].who = "malloc"

Shown(i) == {out[i].shown[n] : n \in 1..Len(out[i].shown)}

(* C9: with -d off, the printable non-directory root arguments are         *)
(* rendered together in one batch that is the first thing written (unless  *)
(* an allocation for that batch fails); no directory among the arguments   *)
(* is in that batch; each gets its directory event, and its own section,   *)
(* once.                                                                   *)
C9_RootBatchThenSections ==
  pc \in {"read", "done"} /\ ftsp # NoFts /\ f.f_listdir = 0 =>
    LET files == {a \in RootArgs : fts_stat(a) \notin {"NS", "D"}}
        dirs == {a \in RootArgs : fts_stat(a) = "D"}
    IN /\ \A i \in ListIdx : out[i].parent = "argv" => i = 1
       /\ files # {} /\ ~RootAborted =>
            out # <<>> /\ out[1].type = "list" /\ out[1].parent = "argv"
            /\ Shown(1) = files /\ Len(out[1].shown) = Cardinality(files)
       /\ files = {} => \A i \in ListIdx : out[i].parent # "argv"
       /\ \A a \in dirs :
            /\ \A i \in ListIdx : out[i].parent = "argv" => a \notin Shown(i)
            /\ Cardinality({k \in TakenDirs : events[k].id = a}) <= 1
            /\ Cardinality({i \in ListIdx : out[i].parent = a}) <= 1
            /\ \A i \in ListIdx : out[i].parent = a =>
                 \E k \in TakenDirs : events[k].id = a /\ events[k].outlen < i
       /\ WalkEnded => RootDirsTaken

\* f was rendered in the root batch and d afterwards in its own section
C9_Witness ==
  /\ WalkEnded
  /\ f.f_listdir = 0
  /\ argv = <<"f", "d">>
  /\ Len(out) = 3
  /\ out[1].type = "list" /\ out[1].parent = "argv" /\ out[1].shown = <<"f">>
  /\ out[2].type = "hdr" /\ out[2].path = "d"
  /\ out[3].type = "list" /\ out[3].parent = "d"

HasD == \E i \in 1..Len(optv) : optv[i] = "d"

(* C10: when -d is among the options, before or after -R, the run renders  *)
(* the root batch only, the directories among the arguments in place: no   *)
(* traversal event is consumed, no header is written and no directory's    *)
(* children are listed.                                                    *)
C10_ListDirOnly ==
  HasD =>
    /\ pc # "read"
    /\ events = <<>>
    /\ HdrIdx = {}
    /\ Len(out) <= 1
    /\ \A i \in ListIdx : out[i].parent = "argv"
    /\ pc = "done" /\ ftsp # NoFts /\ ~MallocFailed =>
         LET all == {a \in RootArgs : fts_stat(a) # "NS"}
         IN IF all = {} THEN out = <<>>
            ELSE Len(out) = 1 /\ Shown(1) = all

\* -d then -R: the directory d is in the one batch rendered
C10_Witness ==
  /\ pc = "done"
  /\ optv = <<"d", "R">>
  /\ argv = <<"f", "d">>
  /\ Len(out) = 1
  /\ Shown(1) = {"f", "d"}

-----------------------------------------------------------------------------
ModeFlags == {"f_singlecol", "f_column", "f_columnacross", "f_longform", "f_stream"}

\* the last letter of o that is in L, "" when there is none
RECURSIVE LastOf(_, _)
LastOf(L, o) ==
  IF o = <<>> THEN ""
  ELSE IF o[Len(o)] \in L THEN o[Len(o)]
  ELSE LastOf(L, SubSeq(o, 1, Len(o) - 1))

\* the renderer an output-format letter asks for
RendererOf(ch) ==
  CASE ch = "1" -> "printscol"
    [] ch = "C" -> "printcol"
    [] ch = "x" -> "printacol"
    [] ch = "m" -> "printstream"
    [] ch \in {"l", "n"} -> "printlong"

(* C11: at every step of the option loop exactly one of the five           *)
(* display-mode flags is set, and the renderer selected is that of the     *)
(* last of -1 -C -l -m -n -x given; with none given it is printcol on a    *)
(* terminal and printscol otherwise.                                       *)
C11_LastModeFlagWins ==
  /\ pc # "idle" => Cardinality({n \in ModeFlags : f[n] = 1}) = 1
  /\ pc \in {"traverse", "read", "done"} =>
       printfcn = IF LastOf(ModeOpts, optv) # "" THEN RendererOf(LastOf(ModeOpts, optv))
                  ELSE IF env.tty THEN "printcol" ELSE "printscol"

\* -1 then -m: the stream format is selected although -1 was given first
C11_Witness ==
  /\ pc = "traverse"
  /\ optv = <<"1", "m">>
  /\ printfcn = "printstream"
  /\ f.f_singlecol = 0

(* C13: in a long-format render every surviving entry has its annotation;  *)
(* with numeric-only set the user and group are the decimal strings of the *)
(* uid and gid even where a lookup would succeed; with numeric-only clear  *)
(* they are the names where the lookup succeeds and the decimal strings    *)
(* where it fails.                                                         *)
C13_NumericOnly ==
  \A i \in ListIdx :
    f.f_longform = 1 =>
      /\ Len(out[i].np) = Len(out[i].shown)
      /\ \A k \in 1..Len(out[i].np) :
           LET a == out[i].np[k]
               sp == FS[a.id].st
           IN /\ a.id = out[i].shown[k]
              /\ f.f_numericonly = 1 =>
                   a.user = umaxtostr(sp.st_uid) /\ a.group = umaxtostr(sp.st_gid)
              /\ f.f_numericonly = 0 =>
                   /\ a.user = IF pw_name(sp.st_uid) # <<>> THEN pw_name(sp.st_uid)
                               ELSE umaxtostr(sp.st_uid)
                   /\ a.group = IF gr_name(sp.st_gid) # <<>> THEN gr_name(sp.st_gid)
                                ELSE umaxtostr(sp.st_gid)

\* -n: an entry whose owner has a name is annotated with the number
C13_Witness ==
  /\ f.f_longform = 1
  /\ f.f_numericonly = 1
  /\ \E i \in ListIdx : \E k \in 1..Len(out[i].np) :
       /\ pw_name(FS[out[i].np[k].id].st.st_uid) # <<>>
       /\ out[i].np[k].user = umaxtostr(FS[out[i].np[k].id].st.st_uid)

-----------------------------------------------------------------------------
\* the entry id is among those some listing of directory dir rendered
ListedIn(dir, id) == \E i \in ListIdx : out[i].parent = dir /\ id \in Shown(i)

ErrsNaming(id) == {k \in 1..Len(err) : err[k].who = id}

(* C12, as claimed: when the root argument is a directory holding one      *)
(* unreadable subdirectory and one regular file, then in every walk that   *)
(* runs to its end (no allocation failing) the exit status is non-zero,    *)
(* the file is listed and exactly one error line names the subdirectory.   *)
(* Without -R the subdirectory is never opened (ls.c:409-410).             *)
C12_UnreadableSubdirAlwaysReported ==
  argv = <<"q">> /\ WalkEnded /\ ~MallocFailed =>
    /\ ret # 0
    /\ ListedIn("q", "q/g")
    /\ Cardinality(ErrsNaming("q/u")) = 1

(* C12, amended: under the same conditions, in a recursive walk the exit   *)
(* status is non-zero, the file is listed and the one error line written   *)
(* names the subdirectory; in a non-recursive walk the subdirectory is     *)
(* listed by name beside the file and never opened, no error line is       *)
(* written and no step of the run sets the failure flag; with -d the root  *)
(* argument alone is listed and no error line is written.                  *)
C12_UnreadableSubdirReportedInWalk ==
  /\ argv = <<"q">> /\ WalkEnded /\ ~MallocFailed =>
       /\ ListedIn("q", "q/g")
       /\ IF f.f_recursive = 1
          THEN /\ ret # 0
               /\ Cardinality(ErrsNaming("q/u")) = 1
               /\ Len(err) = 1
          ELSE /\ ListedIn("q", "q/u")
               /\ err = <<>>
               /\ \A k \in 1..Len(calls) : ~calls[k].failed
               /\ \A k \in 1..Len(events) : events[k].info \notin {"DNR", "ERR"}
  /\ argv = <<"q">> /\ pc = "done" /\ f.f_listdir = 1 /\ ftsp # NoFts /\ ~MallocFailed =>
       /\ err = <<>>
       /\ Len(out) = 1 /\ out[1].shown = <<"q">>

\* -R: the file was listed, the walk met the unreadable subdirectory, wrote
\* its one error line and the call returned non-zero
C12_Witness ==
  /\ argv = <<"q">>
  /\ WalkEnded
  /\ f.f_recursive = 1
  /\ ListedIn("q", "q/g")
  /\ Len(err) = 1 /\ err[1].who = "q/u"
  /\ ret = 1

\* the directory that holds id, "" for an id no directory holds
ParentOf(id) ==
  IF \E d \in Ids : \E n \in 1..Len(FS[d].kids) : FS[d].kids[n] = id
  THEN CHOOSE d \in Ids : \E n \in 1..Len(FS[d].kids) : FS[d].kids[n] = id
  ELSE ""

RECURSIVE Ancestors(_)
Ancestors(id) == IF ParentOf(id) = "" THEN {} ELSE {ParentOf(id)} \cup Ancestors(ParentOf(id))

\* the hidden directories below root level the walk has returned
HiddenDirs ==
  {events[k].id : k \in {j \in 1..Len(events) :
                           /\ events[j].info = "D"
                           /\ events[j].level # FTS_ROOTLEVEL
                           /\ events[j].name[1] = Dot}}

\* id is a hidden directory the walk returned, or lies beneath one
InHidden(id) == id \in HiddenDirs \/ Ancestors(id) \cap HiddenDirs # {}

(* C14, as claimed: with dot files suppressed the directory event of a     *)
(* hidden directory below root level is not taken and writes nothing, and  *)
(* nothing in or beneath it gets a header or is listed.  The loop passes   *)
(* over the directory without telling the walk to skip it (ls.c:389-391).  *)
C14_HiddenDirSkippedEntirely ==
  f.f_listdot = 0 =>
    /\ \A k \in 1..Len(events) :
         events[k].id \in HiddenDirs /\ events[k].info = "D" =>
           ~events[k].taken /\ Written(k) = <<>>
    /\ \A i \in HdrIdx : ~InHidden(out[i].path)
    /\ \A i \in ListIdx : out[i].parent # "argv" => ~InHidden(out[i].parent)

(* C15, as claimed: every annotation a call of display allocated is        *)
(* released when the call returns.  The return after a failed malloc       *)
(* (ls.c:554-559) releases nothing.                                        *)
C15_AnnotationsReleased ==
  /\ \A k \in 1..Len(calls) : calls[k].live = {}
  /\ np_live = {}

-----------------------------------------------------------------------------
\* the entries of the list of call c that are neither error nor
\* not-stat-able nodes, deferred root directories or suppressed dot files
Survivors(c) ==
  {n \in 1..Len(c.list) :
     LET e == c.list[n]
     IN /\ e.fts_info \notin {"ERR", "NS"}
        /\ c.p.fts_info = "INIT" => ~(e.fts_info = "D" /\ f.f_listdir = 0)
        /\ c.p.fts_info # "INIT" => ~(e.fts_name[1] = Dot /\ f.f_listdot = 0)}

ErrorNodes(c) == {n \in 1..Len(c.list) : c.list[n].fts_info \in {"ERR", "NS"}}

MaxOf(S) == IF S = {} THEN 0 ELSE CHOOSE x \in S : \A y \in S : x >= y

\* the blocks of the entries numbered in S of a list
RECURSIVE BlockSum(_, _)
BlockSum(list, S) ==
  IF S = {} THEN 0
  ELSE LET n == CHOOSE x \in S : TRUE
       IN list[n].fts_statp.st_blocks + BlockSum(list, S \ {n})

NeedStats == f.f_inode = 1 \/ f.f_longform = 1 \/ f.f_size = 1

(* C16: the descriptor a call of display hands to the renderer counts      *)
(* exactly the surviving entries of the list, and its maxima and block     *)
(* total are those of the surviving entries alone, whatever the raw values *)
(* of the suppressed ones.                                                 *)
C16_AggregatesOverSurvivors ==
  \A k \in 1..Len(calls) :
    calls[k].items # <<>> =>
      LET c == calls[k]
          d == c.items[1].d
          S == Survivors(c)
          st(n) == c.list[n].fts_statp
      IN /\ d.entries = Cardinality(S)
         /\ d.entries = Len(c.list) - Cardinality((1..Len(c.list)) \ S)
         /\ d.maxlen = MaxOf({c.list[n].fts_namelen : n \in S})
         /\ NeedStats =>
              /\ d.btotal = BlockSum(c.list, S)
              /\ d.s_block = Len(umaxtostr(MaxOf({st(n).st_blocks : n \in S})))
              /\ d.s_inode = Len(umaxtostr(MaxOf({st(n).st_ino : n \in S})))
              /\ d.s_nlink = Len(umaxtostr(MaxOf({st(n).st_nlink : n \in S})))
              /\ d.s_size = Len(umaxtostr(MaxOf({st(n).st_size : n \in S})))
         /\ f.f_longform = 1 =>
              /\ d.s_user = MaxOf({Len(display_user(st(n))) : n \in S})
              /\ d.s_group = MaxOf({Len(display_group(st(n))) : n \in S})

\* a long listing of d: the suppressed dot file .c is larger, has more
\* blocks and a longer name than any entry shown, and the descriptor is that
\* of the entries shown
C16_Witness ==
  \E k \in 1..Len(calls) :
    /\ calls[k].items # <<>>
    /\ calls[k].p.fts_info = "D" /\ calls[k].p.id = "d"
    /\ f.f_longform = 1 /\ f.f_listdot = 0
    /\ \E n \in 1..Len(calls[k].list) :
         /\ calls[k].list[n].id = "d/.c"
         /\ n \notin Survivors(calls[k])
         /\ Len(umaxtostr(calls[k].list[n].fts_statp.st_size)) > calls[k].items[1].d.s_size
         /\ calls[k].list[n].fts_namelen > calls[k].items[1].d.maxlen

(* C17, as claimed: a call of display none of whose entries survives       *)
(* writes nothing to either channel and leaves the has-output flag and the *)
(* failure flag as they were.  The error and not-stat-able nodes of the    *)
(* list are reported before the count is looked at (ls.c:469-476).         *)
C17_NoSurvivorNoEffect ==
  \A k \in 1..Len(calls) :
    Survivors(calls[k]) = {} =>
      /\ calls[k].items = <<>>
      /\ ~calls[k].printed
      /\ calls[k].errs = <<>>
      /\ ~calls[k].failed

(* C17, amended: a call of display none of whose entries survives does not *)
(* invoke the renderer, writes nothing to standard output, leaves the      *)
(* has-output flag as it was and no annotation allocated; it writes one    *)
(* error line for each error or not-stat-able node of the list and sets    *)
(* the failure flag if there is one, and otherwise writes nothing to the   *)
(* error channel and leaves the failure flag as it was.                    *)
C17_NoSurvivorNoOutput ==
  \A k \in 1..Len(calls) :
    Survivors(calls[k]) = {} =>
      LET c == calls[k]
          E == ErrorNodes(c)
      IN /\ c.items = <<>>
         /\ ~c.printed
         /\ c.live = {}
         /\ Len(c.errs) = Cardinality(E)
         /\ \A n \in 1..Len(c.errs) : \E m \in E : c.errs[n].who = c.list[m].id
         /\ c.failed <=> E # {}

\* the one argument cannot be stat'ed: it is reported, nothing is rendered
C17_Witness ==
  /\ pc = "done"
  /\ argv = <<"n">>
  /\ Len(calls) = 1
  /\ calls[1].list # <<>>
  /\ Survivors(calls[1]) = {}
  /\ Len(calls[1].errs) = 1
  /\ out = <<>>
  /\ output = 0

-----------------------------------------------------------------------------
(* C18: with dot files suppressed, a root argument whose name begins with  *)
(* a dot is still listed in the root batch if it is not a directory (or -d *)
(* is given) and still has its directory event taken if it is one, the     *)
(* default argument "." included; an entry below root level whose name     *)
(* begins with a dot is never rendered.                                    *)
C18_RootExemptFromDotFilter ==
  f.f_listdot = 0 /\ pc \in {"read", "done"} /\ ftsp # NoFts =>
    /\ \A i \in ListIdx :
         out[i].parent # "argv" => \A id \in Shown(i) : FS[id].name[1] # Dot
    /\ \A a \in RootArgs :
         ArgName(a)[1] = Dot =>
           /\ fts_stat(a) # "NS" /\ (fts_stat(a) # "D" \/ f.f_listdir = 1) /\ ~RootAborted =>
                out # <<>> /\ out[1].type = "list" /\ out[1].parent = "argv"
                /\ a \in Shown(1)
           /\ fts_stat(a) = "D" /\ WalkEnded =>
                \E k \in TakenDirs : events[k].id = a /\ events[k].level = FTS_ROOTLEVEL

\* no argument: the directory event of "." was taken and its children
\* listed, the dot file among them left out
C18_Witness ==
  /\ WalkEnded
  /\ argv = <<>>
  /\ f.f_listdot = 0
  /\ \E k \in TakenDirs : events[k].id = "."
  /\ ListedIn(".", "f")
  /\ ~ListedIn(".", ".hf")

\* the stat buffer of an entry was filled in
StatValid(e) == "st_size" \in DOMAIN e.fts_statp

(* C19: whenever display reads stat metadata (inode, size-in-blocks or     *)
(* long format) or the selected comparator does (sort key size or time,    *)
(* also one left over from an earlier call), the walk has neither          *)
(* FTS_NOSTAT nor a names-only child fetch, and every entry of every list  *)
(* handed to display that is not an error or not-stat-able node carries a  *)
(* filled-in stat buffer.                                                  *)
C19_StatCollectedWhenRead ==
  pc \in {"traverse", "read", "done"}
    /\ (NeedStats \/ sortfcn \notin {"namecmp", "revnamecmp"}) =>
      /\ "FTS_NOSTAT" \notin fts_options
      /\ ch_options_of(fts_options) # "FTS_NAMEONLY"
      /\ \A k \in 1..Len(calls) : \A n \in 1..Len(calls[k].list) :
           calls[k].list[n].fts_info \notin {"ERR", "NS"} => StatValid(calls[k].list[n])

\* a call without -S after one with -S: the size comparator is selected,
\* stat is collected, and a directory's children were sorted and listed
C19_Witness ==
  /\ WalkEnded
  /\ sortfcn = "sizecmp"
  /\ ~NeedStats
  /\ \A i \in 1..Len(optv) : optv[i] # "S"
  /\ \E k \in 1..Len(calls) :
       /\ calls[k].p.fts_info = "D"
       /\ Len(calls[k].list) > 1
       /\ calls[k].items # <<>>

(* C20: during a call of ls_main the has-output flag is set exactly when   *)
(* something has been written to standard output in that call; it is clear *)
(* while the options are read, never goes back from set to clear, and the  *)
(* renderer is only handed descriptors of at least one entry.              *)
C20_OutputFlag ==
  /\ pc # "idle" => (output # 0 <=> out # <<>>)
  /\ pc = "getopt" => output = 0
  /\ pc # "idle" =>
       /\ \A k \in 1..Len(events) : events[k].output <= output
       /\ \A k \in 1..(Len(events) - 1) : events[k].output <= events[k + 1].output
  /\ \A i \in ListIdx : out[i].d.entries >= 1 /\ Len(out[i].shown) >= 1

\* the first of two root directories has only dot files: its header alone
\* has set the flag
C20_Witness ==
  /\ pc = "read"
  /\ argv = <<"e", "d">>
  /\ Len(out) = 1
  /\ out[1].type = "hdr"
  /\ output = 1

=============================================================================
